---- MODULE Spec2Model ----
(***************************************************************************)
(* A model of VAT (src/vat.py), the virtual adversarial training loss.     *)
(*                                                                         *)
(* Arithmetic.  A float is modelled as a fixed-point integer: the integer  *)
(* n stands for the real n / One.  Every operation computes its result     *)
(* and rounds it to the nearest point of the grid, as float arithmetic     *)
(* rounds to the nearest representable value.  A division by zero and the  *)
(* logarithm of a non-positive number give NonFinite (the float NaN, +Inf  *)
(* or -Inf), which every later operation propagates.                       *)
(*                                                                         *)
(* Tensors.  A [N, D] or [N, C] tensor is a sequence of N rows, a row a    *)
(* sequence of numbers; a [N] tensor is a sequence of N numbers.  A tensor *)
(* of the graph is a record [v |-> its value, g |-> the set of paths by    *)
(* which a gradient can flow from it back to the parameters of a network]. *)
(***************************************************************************)
EXTENDS Integers, Sequences, FiniteSets

\* The fixed-point unit: the integer that stands for 1.0.
One == 1000

\* The float NaN / Inf: the result of x / 0 and of log(x) for x <= 0.
NonFinite == 2000000000

IsFinite(a) == a # NonFinite

Abs(a) == IF a < 0 THEN -a ELSE a

\* a / b rounded to the nearest integer (halves away from zero), b # 0.
Quot(a, b) ==
  LET q == (2 * Abs(a) + Abs(b)) \div (2 * Abs(b))
  IN  IF (a >= 0) = (b > 0) THEN q ELSE -q

\* Float addition, subtraction, multiplication, division and negation.
FAdd(a, b) == IF IsFinite(a) /\ IsFinite(b) THEN a + b ELSE NonFinite

FNeg(a) == IF IsFinite(a) THEN -a ELSE NonFinite

FSub(a, b) == FAdd(a, FNeg(b))

FMul(a, b) == IF IsFinite(a) /\ IsFinite(b) THEN Quot(a * b, One) ELSE NonFinite

FDiv(a, b) ==
  IF IsFinite(a) /\ IsFinite(b) /\ b # 0 THEN Quot(a * One, b) ELSE NonFinite

\* tf.maximum(a, b)
FMax(a, b) ==
  IF IsFinite(a) /\ IsFinite(b) THEN (IF a >= b THEN a ELSE b) ELSE NonFinite

RECURSIVE SqrtIter(_, _)
SqrtIter(n, x) ==
  LET y == (x + n \div x) \div 2
  IN  IF y >= x THEN x ELSE SqrtIter(n, y)

\* The integer square root: the largest r with r * r <= n.
ISqrt(n) == IF n <= 0 THEN 0 ELSE SqrtIter(n, n)

\* The square root of n rounded to the nearest integer.
FSqrt(n) ==
  LET r == ISqrt(n)
  IN  IF n - r * r > r THEN r + 1 ELSE r

\* e^(-k) for the whole numbers k = 0, 1, 2, ... on the grid.
ExpWhole(k) ==
  IF k >= 7 THEN 0
  ELSE <<1000, 368, 135, 50, 18, 7, 2>>[k + 1]

\* e^(-f / One) for 0 <= f < One, by its Taylor series.
ExpFrac(f) ==
  LET t2 == (f * f) \div (2 * One)
      t3 == (t2 * f) \div (3 * One)
      t4 == (t3 * f) \div (4 * One)
      t5 == (t4 * f) \div (5 * One)
      t6 == (t5 * f) \div (6 * One)
  IN  One - f + t2 - t3 + t4 - t5 + t6

\* e^z for z <= 0.
ExpNeg(z) ==
  LET k == (-z) \div One
      f == (-z) % One
  IN  (ExpWhole(k) * ExpFrac(f)) \div One

\* ln(m / One) for One <= m < 2 * One, by the series of 2 * atanh(y).
LnMantissa(m) ==
  LET y  == ((m - One) * One) \div (m + One)
      y2 == (y * y) \div One
      y3 == (y * y2) \div One
      y5 == (y3 * y2) \div One
      y7 == (y5 * y2) \div One
  IN  2 * (y + y3 \div 3 + y5 \div 5 + y7 \div 7)

\* ln 2 on the grid.
Ln2 == 693

RECURSIVE LnReduce(_, _)
LnReduce(m, k) ==
  IF m < One THEN LnReduce(2 * m, k - 1)
  ELSE IF m >= 2 * One THEN LnReduce(m \div 2, k + 1)
  ELSE LnMantissa(m) + k * Ln2

\* tf.log
FLog(a) == IF IsFinite(a) /\ a > 0 THEN LnReduce(a, 0) ELSE NonFinite

(***************************************************************************)
(* Tensors                                                                 *)
(***************************************************************************)

RECURSIVE ReduceSum(_)
\* tf.reduce_sum of a sequence of numbers.
ReduceSum(s) ==
  IF s = <<>> THEN 0 ELSE FAdd(s[1], ReduceSum(Tail(s)))

AllFinite(row) == \A d \in DOMAIN row : IsFinite(row[d])

\* Whether no element of a [N, D] tensor value is NaN or Inf.
TensorFinite(t) == \A r \in DOMAIN t : AllFinite(t[r])

\* tf.norm over the axes after the batch axis: the Euclidean norm of one row.
RowNorm(row) ==
  IF AllFinite(row)
  THEN FSqrt(ReduceSum([d \in DOMAIN row |-> row[d] * row[d]]))
  ELSE NonFinite

\* a + b, elementwise, of two [N, D] tensor values.
TensorAdd(a, b) ==
  [r \in DOMAIN a |-> [d \in DOMAIN a[r] |-> FAdd(a[r][d], b[r][d])]]

\* s * t for a scalar s and a [N, D] tensor value t.
Scale(s, t) ==
  [r \in DOMAIN t |-> [d \in DOMAIN t[r] |-> FMul(s, t[r][d])]]

RowMax(row) == CHOOSE m \in {row[c] : c \in DOMAIN row} :
                 \A c \in DOMAIN row : row[c] <= m

\* tf.nn.softmax of one row of logits: exp(z - max z) / sum exp(z - max z).
SoftmaxRow(row) ==
  IF ~AllFinite(row) THEN [c \in DOMAIN row |-> NonFinite]
  ELSE LET e == [c \in DOMAIN row |-> ExpNeg(row[c] - RowMax(row))]
       IN  [c \in DOMAIN row |-> FDiv(e[c], ReduceSum(e))]

\* tf.nn.softmax of a [N, C] tensor value.
Softmax(logits) == [r \in DOMAIN logits |-> SoftmaxRow(logits[r])]

\* A tensor of the graph: its value and the paths a gradient can take from
\* it back to the parameters of a network.
Tensor(v, g) == [v |-> v, g |-> g]

\* A local name that no statement has assigned yet.
Unbound == Tensor(<<>>, {})

IsBound(t) == t.v # <<>>

(***************************************************************************)
(* The arguments of a call, drawn from small sets                          *)
(***************************************************************************)

\* The scorers a caller may pass: linear maps logits = W x, W of shape
\* [C, D] with C = 2 classes and D = 2 features.  "flat" scores every input
\* alike, so its divergence has gradient zero everywhere.
Networks == {"skew", "flat"}

\* The scorers passed as network, the model whose loss is computed.
TrainedNetworks == {"skew"}

Weights(net) ==
  IF net = "skew" THEN << <<2, -1>>, <<-1, 1>> >>
  ELSE << <<0, 0>>, <<0, 0>> >>

\* network(t): the logits of every row of the [N, D] tensor value t.
Apply(net, t) ==
  LET W == Weights(net)
  IN  [r \in DOMAIN t |->
        [c \in DOMAIN W |->
          IF AllFinite(t[r])
          THEN ReduceSum([d \in DOMAIN t[r] |-> W[c][d] * t[r][d]])
          ELSE NonFinite]]

\* The largest batch size of the input batches.
MaxBatch == 2

\* The input batches: [N, 2] tensors for N = 1 .. MaxBatch.
InputBatches ==
  { [r \in 1..n |-> IF r % 2 = 1 THEN <<500, 200>> ELSE <<-300, 400>>] :
      n \in 1..MaxBatch }

\* The graph-level random seeds; tf.random_normal draws the same sample in
\* every call made under one seed.
Seeds == {1, 2}

\* tf.random_normal(shape = [n, 2]) under a seed.
RandomNormal(s, n) ==
  [r \in 1..n |-> IF s = 1 THEN <<300 * r, -400>> ELSE <<-1200, 500 * (r - 1)>>]

\* The largest num_approximation of a call.
MaxApprox == 2

\* num_approximation: an int, which the signature does not restrict.
NumApproximations == (-1)..MaxApprox

\* xi and epsilon: floats, which the signature does not restrict.
XiValues == {-500, 0, 500}

EpsilonValues == {-2000, 0, 2000}

\* The literal 1e-30 of the final division, a positive number far below
\* 1.0: one step of the grid.
Lit1e30 == 1

\* The default of clip_value_min, 1e-30.
ClipDefault == 1

\* clip_value_min: the default and a larger floor.
ClipValues == {ClipDefault, 20}

\* A scalar weight (rank 0) or a per-example weight of shape [n] (rank 1).
ScalarWeight(w) == [rank |-> 0, val |-> w]

VectorWeight(s) == [rank |-> 1, val |-> s]

WeightValues(n) ==
  { ScalarWeight(0), ScalarWeight(One),
    VectorWeight([r \in 1..n |-> 0]),
    VectorWeight([r \in 1..n |-> One]),
    VectorWeight([r \in 1..n |-> r * One]) }

\* The weight of example r, by broadcasting.
WeightAt(w, r) == IF w.rank = 0 THEN w.val ELSE w.val[r]

\* tf.reduce_sum(weight)
WeightSum(w) == IF w.rank = 0 THEN w.val ELSE ReduceSum(w.val)

(***************************************************************************)
(* The state of a call of VAT                                              *)
(***************************************************************************)

VARIABLES
  input_tensor,            \* argument: the [N, D] batch
  network,                 \* argument: the scorer
  nta_argument,            \* argument network_to_approximate as passed
  xi, epsilon, weight, num_approximation, clip_value_min,   \* arguments
  seed,                    \* the random seed of the graph
  pc,                      \* the line the call is at, or how it ended
  network_to_approximate,  \* the local name, rebound by line 26
  isSameNetwork,
  plain_softmax,
  perturbation,
  i,                       \* the iterations of the loop begun so far
  softmax_accommodating_perturbation,
  cross_entropy_accommodating_perturbation,
  adversarial_direction,
  vat_perturbation,
  current_softmax,
  vat_softmax,
  vat_cross_entropy,
  returned,                \* the pair the call returned, <<>> before
  steps,                   \* history: what each loop iteration read and made
  divisors,                \* history: the divisors normalized divided by
  previous                 \* history: the call made before this one

args == <<input_tensor, network, xi, epsilon, weight, num_approximation,
          clip_value_min, seed>>

locals == <<network_to_approximate, isSameNetwork, plain_softmax,
            perturbation, i, softmax_accommodating_perturbation,
            cross_entropy_accommodating_perturbation, adversarial_direction,
            vat_perturbation, current_softmax, vat_softmax,
            vat_cross_entropy, returned, steps, divisors>>

vars == <<args, nta_argument, pc, locals, previous>>

\* The batch size.
N == Len(input_tensor)

\* No call was made before this one.
NoCall == [nta |-> "None", outcome |-> "none", result |-> <<>>]

\* The locals of a call that has just been entered.
Entered ==
  /\ pc = "L25"
  /\ network_to_approximate = nta_argument
  /\ isSameNetwork = FALSE
  /\ plain_softmax = Unbound
  /\ perturbation = Unbound
  /\ i = 0
  /\ softmax_accommodating_perturbation = Unbound
  /\ cross_entropy_accommodating_perturbation = Unbound
  /\ adversarial_direction = Unbound
  /\ vat_perturbation = Unbound
  /\ current_softmax = Unbound
  /\ vat_softmax = Unbound
  /\ vat_cross_entropy = Unbound
  /\ returned = <<>>
  /\ steps = <<>>
  /\ divisors = {}

Init ==
  /\ input_tensor \in InputBatches
  /\ network \in TrainedNetworks
  /\ nta_argument \in {"None"} \cup Networks
  /\ xi \in XiValues
  /\ epsilon \in EpsilonValues
  /\ weight \in WeightValues(Len(input_tensor))
  /\ num_approximation \in NumApproximations
  /\ clip_value_min \in ClipValues
  /\ seed \in Seeds
  /\ previous = NoCall
  /\ Entered

(***************************************************************************)
(* The helpers of VAT                                                      *)
(***************************************************************************)

\* clipped without its floor.
clippedNoFloor(x) == x

\* Line 31: clipped = lambda x: tf.maximum(x, clip_value_min)
clipped(x) == FMax(x, clip_value_min)

\* Line 35: the divisor of one row, clipped(tf.norm(x, axis, keep_dims)).
Divisor(row) == clipped(RowNorm(row))

\* Line 35: normalized = lambda x: x / clipped(tf.norm(...))
normalized(t) ==
  [r \in DOMAIN t |-> [d \in DOMAIN t[r] |-> FDiv(t[r][d], Divisor(t[r]))]]

\* The divisors normalized(t) divides by, one per row.
DivisorsOf(t) == {Divisor(t[r]) : r \in DOMAIN t}

\* Lines 41 and 50: -tf.reduce_sum(p * tf.log(clipped(q)), 1) * w, the
\* weighted cross entropy of every example, a [N] tensor value.
CrossEntropy(p, q, w) ==
  [r \in DOMAIN p |->
    FMul(FNeg(ReduceSum([c \in DOMAIN p[r] |->
                           FMul(p[r][c], FLog(clipped(q[r][c])))])),
         WeightAt(w, r))]

\* Line 42: tf.gradients(cross entropy, [perturbation])[0] for the linear
\* scorer net, where q is the softmax of the forward pass at the perturbed
\* point and p the reference distribution.  By the chain rule the gradient
\* with respect to logit k of row r is
\*   - w[r] * sum over the classes c with q[c] >= clip_value_min (where
\*     tf.maximum passes the gradient to q) of p[c] * ((c = k) - q[k]),
\* and the gradient with respect to the perturbation is W^T times that.
Gradients(net, p, q, w) ==
  LET W == Weights(net)
      passes(r, c) == IsFinite(q[r][c]) /\ q[r][c] >= clip_value_min
      dlogit(r, k) ==
        FNeg(FMul(WeightAt(w, r),
                  ReduceSum([c \in DOMAIN p[r] |->
                    IF passes(r, c)
                    THEN FMul(p[r][c],
                              FSub(IF c = k THEN One ELSE 0, q[r][k]))
                    ELSE 0])))
  IN  [r \in DOMAIN p |->
        [d \in DOMAIN input_tensor[r] |->
          ReduceSum([k \in DOMAIN W |->
            IF IsFinite(dlogit(r, k)) THEN W[k][d] * dlogit(r, k)
            ELSE NonFinite])]]

\* tf.stop_gradient left out.
StopGradientLeftOut(t) == t

\* tf.stop_gradient: the same value, with no path for a gradient.
StopGradient(t) == Tensor(t.v, {})

(***************************************************************************)
(* The statements of VAT                                                   *)
(***************************************************************************)

\* Lines 25-29: network_to_approximate defaults to network.
Line25 ==
  /\ pc = "L25"
  /\ IF network_to_approximate = "None"
     THEN /\ network_to_approximate' = network
          /\ isSameNetwork' = TRUE
     ELSE /\ isSameNetwork' = FALSE
          /\ UNCHANGED network_to_approximate
  /\ pc' = "L37"
  /\ UNCHANGED <<args, nta_argument, previous, plain_softmax, perturbation,
                 i, softmax_accommodating_perturbation,
                 cross_entropy_accommodating_perturbation,
                 adversarial_direction, vat_perturbation, current_softmax,
                 vat_softmax, vat_cross_entropy, returned, steps, divisors>>

\* Line 37: plain_softmax = tf.nn.softmax(network_to_approximate(input_tensor))
Line37 ==
  /\ pc = "L37"
  /\ plain_softmax' =
       Tensor(Softmax(Apply(network_to_approximate, input_tensor)),
              {"approx_clean"})
  /\ pc' = "L38"
  /\ UNCHANGED <<args, nta_argument, previous, network_to_approximate,
                 isSameNetwork, perturbation, i,
                 softmax_accommodating_perturbation,
                 cross_entropy_accommodating_perturbation,
                 adversarial_direction, vat_perturbation, current_softmax,
                 vat_softmax, vat_cross_entropy, returned, steps, divisors>>

\* Line 38: perturbation = xi * normalized(tf.random_normal(shape))
Line38 ==
  /\ pc = "L38"
  /\ LET noise == RandomNormal(seed, N)
     IN  /\ perturbation' = Tensor(Scale(xi, normalized(noise)), {})
         /\ divisors' = divisors \cup DivisorsOf(noise)
  /\ pc' = "L39"
  /\ UNCHANGED <<args, nta_argument, previous, network_to_approximate,
                 isSameNetwork, plain_softmax, i,
                 softmax_accommodating_perturbation,
                 cross_entropy_accommodating_perturbation,
                 adversarial_direction, vat_perturbation, current_softmax,
                 vat_softmax, vat_cross_entropy, returned, steps>>

\* Line 44 left out: the next iteration keeps the probe of this one.
StaleProbe(direction) == perturbation.v

\* Line 44: perturbation = xi * vat_perturbation, the probe of the next
\* iteration.
NextProbe(direction) == Scale(xi, direction)

\* Lines 39-41: the loop begins an iteration: the forward pass at the
\* perturbed point and its cross entropy against plain_softmax.
LoopForward ==
  /\ pc = "L39"
  /\ i < num_approximation
  /\ i' = i + 1
  /\ LET q == Tensor(Softmax(Apply(network_to_approximate,
                                   TensorAdd(input_tensor, perturbation.v))),
                     {"loop"} \cup perturbation.g)
     IN  /\ softmax_accommodating_perturbation' = q
         /\ cross_entropy_accommodating_perturbation' =
              Tensor(CrossEntropy(plain_softmax.v, q.v, weight),
                     plain_softmax.g \cup q.g)
  /\ steps' = Append(steps, [fwd |-> perturbation.v, ref |-> plain_softmax.v,
                             wrt |-> <<>>, grad |-> <<>>, dir |-> <<>>])
  /\ pc' = "L42"
  /\ UNCHANGED <<args, nta_argument, previous, network_to_approximate,
                 isSameNetwork, plain_softmax, perturbation,
                 adversarial_direction, vat_perturbation, current_softmax,
                 vat_softmax, vat_cross_entropy, returned, divisors>>

\* Lines 42-44: the gradient of the cross entropy with respect to
\* perturbation, its direction, and the next probe.
LoopBackward ==
  /\ pc = "L42"
  /\ LET grad == Gradients(network_to_approximate, plain_softmax.v,
                           softmax_accommodating_perturbation.v, weight)
         direction == normalized(grad)
         paths == cross_entropy_accommodating_perturbation.g
     IN  /\ adversarial_direction' = Tensor(grad, paths)
         /\ vat_perturbation' = Tensor(direction, paths)
         /\ perturbation' = Tensor(NextProbe(direction), paths)
         /\ divisors' = divisors \cup DivisorsOf(grad)
         /\ steps' = [steps EXCEPT ![Len(steps)] =
                        [@ EXCEPT !.wrt = perturbation.v, !.grad = grad,
                                  !.dir = direction]]
  /\ pc' = "L39"
  /\ UNCHANGED <<args, nta_argument, previous, network_to_approximate,
                 isSameNetwork, plain_softmax, i,
                 softmax_accommodating_perturbation,
                 cross_entropy_accommodating_perturbation, current_softmax,
                 vat_softmax, vat_cross_entropy, returned>>

\* Line 46 recomputing the reference at the perturbed point of line 40.
ReferenceAtProbe ==
  IF ~isSameNetwork
  THEN Tensor(Softmax(Apply(network,
                            TensorAdd(input_tensor, perturbation.v))),
              {"clean"})
  ELSE plain_softmax

\* Line 46: the reference distribution of the loss: recomputed with network
\* unless network_to_approximate was omitted.
Reference ==
  IF ~isSameNetwork
  THEN Tensor(Softmax(Apply(network, input_tensor)), {"clean"})
  ELSE plain_softmax

\* Lines 46-47, reached when range(num_approximation) is exhausted.
Line46 ==
  /\ pc = "L39"
  /\ i >= num_approximation
  /\ current_softmax' = StopGradient(Reference)
  /\ pc' = "L48"
  /\ UNCHANGED <<args, nta_argument, previous, network_to_approximate,
                 isSameNetwork, plain_softmax, perturbation, i,
                 softmax_accommodating_perturbation,
                 cross_entropy_accommodating_perturbation,
                 adversarial_direction, vat_perturbation, vat_softmax,
                 vat_cross_entropy, returned, steps, divisors>>

\* Line 48: vat_perturbation = tf.stop_gradient(epsilon * vat_perturbation).
\* Reading the name vat_perturbation raises UnboundLocalError when the loop
\* body never ran.
Line48 ==
  /\ pc = "L48"
  /\ IF IsBound(vat_perturbation)
     THEN /\ vat_perturbation' =
               StopGradient(Tensor(Scale(epsilon, vat_perturbation.v),
                                   vat_perturbation.g))
          /\ pc' = "L49"
     ELSE /\ pc' = "UnboundLocalError"
          /\ UNCHANGED vat_perturbation
  /\ UNCHANGED <<args, nta_argument, previous, network_to_approximate,
                 isSameNetwork, plain_softmax, perturbation, i,
                 softmax_accommodating_perturbation,
                 cross_entropy_accommodating_perturbation,
                 adversarial_direction, current_softmax, vat_softmax,
                 vat_cross_entropy, returned, steps, divisors>>

\* Line 50 without the + 1e-30.
DenominatorNoGuard(w) == WeightSum(w)

\* Line 50: the divisor of the loss, tf.reduce_sum(weight) + 1e-30.
Denominator(w) == FAdd(WeightSum(w), Lit1e30)

\* Lines 49-50: the forward pass at the adversarial point and the loss.
Line49 ==
  /\ pc = "L49"
  /\ LET q == Tensor(Softmax(Apply(network,
                               TensorAdd(input_tensor, vat_perturbation.v))),
                     {"perturbed"} \cup vat_perturbation.g)
     IN  /\ vat_softmax' = q
         /\ vat_cross_entropy' =
              Tensor(FDiv(ReduceSum(CrossEntropy(current_softmax.v, q.v,
                                                 weight)),
                          Denominator(weight)),
                     current_softmax.g \cup q.g)
  /\ pc' = "L51"
  /\ UNCHANGED <<args, nta_argument, previous, network_to_approximate,
                 isSameNetwork, plain_softmax, perturbation, i,
                 softmax_accommodating_perturbation,
                 cross_entropy_accommodating_perturbation,
                 adversarial_direction, vat_perturbation, current_softmax,
                 returned, steps, divisors>>

\* Line 51: return vat_cross_entropy, vat_perturbation
Line51 ==
  /\ pc = "L51"
  /\ returned' = <<vat_cross_entropy.v, vat_perturbation.v>>
  /\ pc' = "returned"
  /\ UNCHANGED <<args, nta_argument, previous, network_to_approximate,
                 isSameNetwork, plain_softmax, perturbation, i,
                 softmax_accommodating_perturbation,
                 cross_entropy_accommodating_perturbation,
                 adversarial_direction, vat_perturbation, current_softmax,
                 vat_softmax, vat_cross_entropy, steps, divisors>>

\* The caller calls VAT once more under the same seed and with the same
\* arguments, spelling the default of network_to_approximate the other way:
\* passed as network where it was omitted, omitted where it was network.
CallAgain ==
  /\ pc \in {"returned", "UnboundLocalError"}
  /\ previous = NoCall
  /\ nta_argument \in {"None", network}
  /\ previous' = [nta |-> nta_argument, outcome |-> pc, result |-> returned]
  /\ nta_argument' = IF nta_argument = "None" THEN network ELSE "None"
  /\ pc' = "L25"
  /\ network_to_approximate' = nta_argument'
  /\ isSameNetwork' = FALSE
  /\ plain_softmax' = Unbound
  /\ perturbation' = Unbound
  /\ i' = 0
  /\ softmax_accommodating_perturbation' = Unbound
  /\ cross_entropy_accommodating_perturbation' = Unbound
  /\ adversarial_direction' = Unbound
  /\ vat_perturbation' = Unbound
  /\ current_softmax' = Unbound
  /\ vat_softmax' = Unbound
  /\ vat_cross_entropy' = Unbound
  /\ returned' = <<>>
  /\ steps' = <<>>
  /\ divisors' = {}
  /\ UNCHANGED args

Next ==
  \/ Line25 \/ Line37 \/ Line38 \/ LoopForward \/ LoopBackward
  \/ Line46 \/ Line48 \/ Line49 \/ Line51 \/ CallAgain

Spec == Init /\ [][Next]_vars

(***************************************************************************)
(* The claims                                                              *)
(***************************************************************************)

\* The call has executed line 47 (and, for the second set, line 48).
PastLine47 == pc \in {"L48", "L49", "L51", "returned", "UnboundLocalError"}

PastLine48 == pc \in {"L49", "L51", "returned"}

\* The gradient of the last iteration of the loop.
LastGradient == steps[Len(steps)].grad

ZeroRow(row) == \A d \in DOMAIN row : row[d] = 0

\* Every entry of weight is zero.
AllZeroWeight ==
  IF weight.rank = 0 THEN weight.val = 0
  ELSE \A r \in DOMAIN weight.val : weight.val[r] = 0

\* Every entry of weight is 1.0.
AllOneWeight ==
  IF weight.rank = 0 THEN weight.val = One
  ELSE \A r \in DOMAIN weight.val : weight.val[r] = One

\* C1: a call with num_approximation <= 0 ends in a configuration error
\* reported at call time: it never returns a (loss, perturbation) pair and
\* never fails with the undefined-reference error of a direction that was
\* never assigned.
C1_NonPositiveIterationsRejected ==
  num_approximation <= 0 => pc \notin {"returned", "UnboundLocalError"}

\* The per-example divergences of the returned loss, unweighted.
Divergences ==
  CrossEntropy(current_softmax.v, vat_softmax.v, ScalarWeight(One))

\* C2: with weight uniformly 1 (the scalar 1.0 or an array of N ones) the
\* returned loss is the unweighted mean of the N per-example divergences:
\* their sum divided by N, up to the 1e-30 guard.
C2_UniformWeightGivesMean ==
  (pc = "returned" /\ AllOneWeight) =>
     \/ returned[1] = FDiv(ReduceSum(Divergences), N * One)
     \/ returned[1] = FDiv(ReduceSum(Divergences), N * One + Lit1e30)

\* C3: for every clip_value_min the returned loss is the sum of the weighted
\* per-example losses divided by exactly sum(weight) + clip_value_min.
C3_GuardIsClipValueMin ==
  pc = "returned" =>
     returned[1] =
       FDiv(ReduceSum(CrossEntropy(current_softmax.v, vat_softmax.v, weight)),
            FAdd(WeightSum(weight), clip_value_min))

\* C4: with network_to_approximate passed explicitly as network, the
\* recomputed reference distribution is the one the omitted-argument branch
\* reuses, and the call returns the same (loss, perturbation) as the call
\* under the same seed with network_to_approximate omitted.
C4_ExplicitSameNetworkIsDefault ==
  /\ (PastLine47 /\ nta_argument = network) =>
        current_softmax.v = plain_softmax.v
  /\ ( /\ pc = "returned"
       /\ previous.outcome = "returned"
       /\ \/ previous.nta = "None" /\ nta_argument = network
          \/ previous.nta = network /\ nta_argument = "None" ) =>
        returned = previous.result

\* C4's case: a call passing network explicitly returned after the call
\* omitting it, with two iterations and a loss and perturbation not zero.
C4_Witness ==
  /\ pc = "returned"
  /\ previous.outcome = "returned"
  /\ previous.nta = "None"
  /\ nta_argument = network
  /\ num_approximation >= 2
  /\ returned[1] > 0
  /\ \E r \in 1..N : ~ZeroRow(returned[2][r])

\* C5: a call with xi <= 0 or epsilon <= 0 ends in a configuration error
\* and returns no (loss, perturbation) pair.
C5_NonPositiveScaleRejected ==
  (xi <= 0 \/ epsilon <= 0) => pc # "returned"

C7_PerturbationHasNormEpsilon ==
  pc = "returned" =>
     /\ Len(returned[2]) = N
     /\ \A r \in 1..N :
          /\ Len(returned[2][r]) = Len(input_tensor[r])
          /\ RowNorm(LastGradient[r]) > clip_value_min =>
               /\ returned[2][r] = Scale(epsilon, normalized(LastGradient))[r]
               /\ Abs(RowNorm(returned[2][r]) - epsilon)
                    <= Abs(epsilon) \div 8 + 2

\* The probe perturbation iteration k must read: xi * normalized(noise) for
\* k = 1, xi times the direction of iteration k - 1 after.
ExpectedProbe(k) ==
  IF k = 1 THEN Scale(xi, normalized(RandomNormal(seed, N)))
  ELSE Scale(xi, steps[k - 1].dir)

\* C8: in every iteration k the forward pass is made at the probe current
\* in iteration k, the gradient is that of the divergence at this probe,
\* taken with respect to it, and the reference distribution is plain_softmax,
\* the same in every iteration.
C8_GradientAtCurrentProbe ==
  /\ Len(steps) = i
  /\ \A k \in 1..Len(steps) :
       \A probe \in {ExpectedProbe(k)} :
          /\ steps[k].fwd = probe
          /\ steps[k].ref =
               Softmax(Apply(network_to_approximate, input_tensor))
          /\ steps[k].grad # <<>> =>
               /\ steps[k].wrt = probe
               /\ \A q \in {Softmax(Apply(network_to_approximate,
                                          TensorAdd(input_tensor, probe)))} :
                     steps[k].grad =
                       Gradients(network_to_approximate, steps[k].ref, q,
                                 weight)
               /\ steps[k].dir = normalized(steps[k].grad)

\* C8's case: a second iteration ran at a probe and to a gradient other
\* than the first's.
C8_Witness ==
  /\ pc = "returned"
  /\ Len(steps) = 2
  /\ steps[2].fwd # steps[1].fwd
  /\ steps[2].grad # steps[1].grad
  /\ \E r \in 1..N : ~ZeroRow(steps[2].grad[r])

\* C9: for positive clip_value_min every divisor normalized divides by is at
\* least clip_value_min; a row whose gradient is exactly zero normalizes to
\* a defined row, the zero row, and VAT then still returns a defined loss
\* and perturbation.
C9_NormalizeDivisorFloored ==
  clip_value_min > 0 =>
     /\ \A d \in divisors : IsFinite(d) /\ d >= clip_value_min
     /\ \A k \in 1..Len(steps) :
          steps[k].grad # <<>> =>
             \A r \in 1..N :
                ZeroRow(steps[k].grad[r]) =>
                   /\ AllFinite(steps[k].dir[r])
                   /\ ZeroRow(steps[k].dir[r])
     /\ (pc = "returned" /\ \E r \in 1..N : ZeroRow(LastGradient[r])) =>
           /\ IsFinite(returned[1])
           /\ TensorFinite(returned[2])

\* C9's case: a call whose last gradient has a zero row, divided by the
\* floor, returned, the weights not being all zero.
C9_Witness ==
  /\ pc = "returned"
  /\ clip_value_min > 0
  /\ ~AllZeroWeight
  /\ \E r \in 1..N : ZeroRow(LastGradient[r])
  /\ clip_value_min \in divisors

\* C10: the reference distribution (on either branch) and the final
\* epsilon-scaled perturbation carry no gradient path once stop_gradient is
\* applied and before the loss uses them, so the loss reaches the parameters
\* only through the evaluation network(x + final perturbation).
C10_LossDifferentiableOnlyThroughPerturbedPass ==
  /\ PastLine47 => current_softmax.g = {}
  /\ PastLine48 => vat_perturbation.g = {}
  /\ pc \in {"L51", "returned"} => vat_cross_entropy.g = {"perturbed"}

\* C10's case: a call on the reuse branch returned after one on the
\* recompute branch, the tensors before stop_gradient carrying paths.
C10_Witness ==
  /\ pc = "returned"
  /\ previous.outcome = "returned"
  /\ isSameNetwork
  /\ previous.nta # "None"
  /\ plain_softmax.g # {}
  /\ adversarial_direction.g # {}

====
